---------------------------- MODULE Spec2Model ----------------------------
(***************************************************************************)
(* A model of realm's binary blob storage (src/src/realm/bin_blob.cpp).    *)
(*                                                                         *)
(* A blob is reached through one root reference.  The root node is either  *)
(* a leaf holding the bytes itself (context flag clear, "Flat") or a       *)
(* directory of references to leaves (context flag set, "Chunked").        *)
(* BinBlob is the facade, BigBlob the transient directory view.            *)
(*                                                                         *)
(* The heap is a sequence of nodes; a reference is an index into it and 0  *)
(* is the null reference.  A node is a record                              *)
(*     [context_flag, has_refs, elems]                                     *)
(* where elems are the bytes of a leaf or the child references of a        *)
(* directory (Array::m_size is Len(elems)).                                *)
(***************************************************************************)
EXTENDS Integers, Sequences, FiniteSets, TLC

\* BinBlob::max_binary_size, the capacity of one leaf, scaled down.
max_binary_size == 3

\* The number of nodes the allocator can hand out before it fails.
MaxNodes == 4

\* The longest payload one replace call is given: enough to overflow an
\* empty leaf, and to need two new leaves when the last one is full.
MaxData == max_binary_size + 1

\* size_t arithmetic wraps modulo this (2^64 in the build; TLC's integers
\* are 32 bits wide, and every length of the model is far below either).
SizeModulus == 2^30

\* The byte values payloads are made of.
Byte == {0, 1}

\* The largest begin and end a call is given: behind the end of every leaf
\* but a full one.
MaxPos == max_binary_size

\* The largest read position: one past the largest blob the heap can hold.
MaxReadPos == (MaxNodes - 1) * max_binary_size + 1

VARIABLES
    heap,     \* the allocator's nodes, by reference
    root,     \* the root reference the caller holds
    alive,    \* FALSE once an assertion has terminated the process or a
              \*        failed allocation has aborted the transaction
    last,     \* the last facade call: its arguments and what it returned
    hist,     \* ghost: "unit": only one-byte appends so far; "append": only
              \*        appends so far; "any": anything else, a call that
              \*        threw included
    written   \* ghost: the payloads of the appends so far, concatenated
              \*        (kept while hist is not "any")

vars == <<heap, root, alive, last, hist, written>>

Min(a, b) == IF a < b THEN a ELSE b

\* a - b in size_t.
SizeSub(a, b) == (a - b) % SizeModulus

\* A payload of n bytes alternating from s: its bytes tell neighbouring
\* positions apart.
Ramp(s, n) == [i \in 1..n |-> (s + i - 1) % 2]

\* What a replace call comes to: the heap it leaves, the reference it
\* returns, and "ok", "assert<line>" (the assertion of that line terminated
\* the process), "nomem" (a call marked "Throws" found the allocator out of
\* memory, and the exception left replace) or "fault" (undefined behaviour:
\* the call crashed or threw).
Outcome(h, ref, status) == [heap |-> h, ref |-> ref, status |-> status]

---------------------------------------------------------------------------
(* The node substrate (Array, Allocator).                                  *)

\* Array::get_size_from_header(m_alloc.translate(ref))
get_size_from_header(h, ref) == Len(h[ref].elems)

\* Array::get_context_flag
get_context_flag(h, ref) == h[ref].context_flag

\* BinBlob::create: a new empty leaf.
EmptyLeaf == [context_flag |-> FALSE, has_refs |-> FALSE, elems |-> <<>>]

\* BigBlob(Allocator&) with create(type_Normal, true): the context flag
\* set on a node that is not marked as holding references.
EmptyDirectory_NoRefs == [context_flag |-> TRUE, has_refs |-> FALSE, elems |-> <<>>]

\* BigBlob(Allocator&): create(type_HasRefs, true), a new empty directory
\* with the context flag set.
EmptyDirectory == [context_flag |-> TRUE, has_refs |-> TRUE, elems |-> <<>>]

\* Array::insert(0, ref) for Array::add(ref): the reference goes in front.
Array_add_Front(h, dir, ref) ==
    [h EXCEPT ![dir].elems = << ref >> \o @]

\* Array::add(ref) on the directory at dir.
Array_add(h, dir, ref) ==
    [h EXCEPT ![dir].elems = Append(@, ref)]

---------------------------------------------------------------------------
(* BinBlob::replace, the Flat branch that stays within one leaf.           *)

\* The uninitialised bytes alloc() adds when the buffer has to grow.
Uninit == 0 - 1

RECURSIVE CopyForward(_, _, _, _)
\* std::copy(m_data + from, m_data + from + n, m_data + to): element by
\* element, lowest address first.
CopyForward(buf, from, n, to) ==
    IF n = 0 THEN buf
    ELSE CopyForward([buf EXCEPT ![to + 1] = buf[from + 1]],
                     from + 1, n - 1, to + 1)

RECURSIVE CopyBackward(_, _, _, _)
\* std::copy_backward(m_data + from, m_data + from + n, m_data + to + n):
\* element by element, highest address first.
CopyBackward(buf, from, n, to) ==
    IF n = 0 THEN buf
    ELSE CopyBackward([buf EXCEPT ![to + n] = buf[from + n]],
                      from, n - 1, to)

\* std::copy(data, data + data_size, m_data + at): the caller's buffer does
\* not overlap the leaf.
CopyIn(buf, data, at) ==
    [i \in 1..Len(buf) |->
        IF i > at /\ i <= at + Len(data) THEN data[i - at] ELSE buf[i]]

\* "Resize previous space to fit new data" with std::copy in both
\* directions.
MoveTail_ForwardOnly(buf, begin, end, m_size, new_size, remove_size, add_size) ==
    IF begin # m_size
    THEN IF remove_size < add_size
         THEN CopyForward(buf, end, m_size - end, new_size - (m_size - end))
         ELSE IF add_size < remove_size
              THEN CopyForward(buf, end, m_size - end, begin + add_size)
              ELSE buf
    ELSE buf

\* "Resize previous space to fit new data": the bytes behind the replaced
\* range move up (expand gap) or down (shrink gap).
MoveTail(buf, begin, end, m_size, new_size, remove_size, add_size) ==
    IF begin # m_size
    THEN IF remove_size < add_size
         THEN CopyBackward(buf, end, m_size - end, new_size - (m_size - end))
         ELSE IF add_size < remove_size
              THEN CopyForward(buf, end, m_size - end, begin + add_size)
              ELSE buf
    ELSE buf

\* Lines 180-207: copy_on_write, alloc, move the tail, insert the data,
\* write the terminator, set m_size.  The bytes of the leaf afterwards.
ReplaceInLeaf(old, begin, end, data, add_zero_term) ==
    LET m_size      == Len(old)
        data_size   == Len(data)
        remove_size == end - begin
        add_size    == IF add_zero_term THEN data_size + 1 ELSE data_size
        new_size    == m_size - remove_size + add_size
        cap         == IF new_size > m_size THEN new_size ELSE m_size
        buf0        == [i \in 1..cap |-> IF i <= m_size THEN old[i] ELSE Uninit]
        buf1        == MoveTail(buf0, begin, end, m_size, new_size,
                                remove_size, add_size)
        buf2        == CopyIn(buf1, data, begin)
        buf3        == IF add_zero_term
                       THEN [buf2 EXCEPT ![begin + data_size + 1] = 0]
                       ELSE buf2
    IN  SubSeq(buf3, 1, new_size)

\* BinBlob::add(data, data_size) on the leaf at ref: replace(m_size, m_size,
\* data, data_size, false), which BigBlob::replace only calls with a result
\* of at most max_binary_size bytes.
BinBlob_add(h, ref, data) ==
    [h EXCEPT ![ref].elems =
        ReplaceInLeaf(@, Len(@), Len(@), data, FALSE)]

---------------------------------------------------------------------------
(* BigBlob                                                                 *)

RECURSIVE SumSizes(_, _, _)
\* The loop of BigBlob::blob_size from child i on.
SumSizes(h, ref, i) ==
    IF i > Len(h[ref].elems) THEN 0
    ELSE get_size_from_header(h, h[ref].elems[i]) + SumSizes(h, ref, i + 1)

BigBlob_blob_size(h, ref) == SumSizes(h, ref, 1)

\* The loop test of BigBlob::get_at with > for >=.
PastBlob_Strict(offset, current_size) == offset > current_size

\* The loop test of BigBlob::get_at: the offset lies behind this child.
PastBlob(offset, current_size) == offset >= current_size

\* BigBlob::get_at's early return without "pos = 0".
NoMoreData_KeepsPos(pos) == [data |-> <<>>, pos |-> pos]

\* BigBlob::get_at's early return: "pos = 0; return {}".
NoMoreData(pos) == [data |-> <<>>, pos |-> 0]

\* "pos = (ndx >= size()) ? 0 : pos + sz" with the local offset for pos.
NextPos_FromOffset(pos, offset, sz, ndx, size) ==
    IF ndx >= size THEN 0 ELSE offset + sz

\* "pos = pos + sz" without the check for the last blob.
NextPos_NoLastCheck(pos, offset, sz, ndx, size) == pos + sz

\* "Check if we are at last blob": pos = (ndx >= size()) ? 0 : pos + sz,
\* ndx already standing behind the child read.
NextPos(pos, offset, sz, ndx, size) ==
    IF ndx >= size THEN 0 ELSE pos + sz

RECURSIVE FindBlob(_, _, _, _)
\* "Find the blob to start from": the while loop of BigBlob::get_at, entered
\* with ndx and offset; ndx counts from 0 as in the code.
FindBlob(h, ref, ndx, offset) ==
    LET current_size == get_size_from_header(h, h[ref].elems[ndx + 1])
    IN  IF PastBlob(offset, current_size)
        THEN IF ndx + 1 >= Len(h[ref].elems)
             THEN [found |-> FALSE, ndx |-> ndx + 1, offset |-> offset]
             ELSE FindBlob(h, ref, ndx + 1, offset - current_size)
        ELSE [found |-> TRUE, ndx |-> ndx, offset |-> offset]

\* BigBlob::get_at: the slice returned and the value pos is left with.
BigBlob_get_at(h, ref, pos) ==
    LET f == FindBlob(h, ref, 0, pos)
    IN  IF ~f.found
        THEN NoMoreData(pos)
        ELSE LET blob         == h[ref].elems[f.ndx + 1]
                 current_size == get_size_from_header(h, blob)
                 sz           == current_size - f.offset
             IN  [data |-> SubSeq(h[blob].elems, f.offset + 1, f.offset + sz),
                  pos  |-> NextPos(pos, f.offset, sz, f.ndx + 1,
                                   Len(h[ref].elems))]

\* The chunk an out-of-bounds read of n bytes can come back with.
Garbage(n) == { [i \in 1..n |-> g] : g \in Byte }

\* Line 115 without the cap of one leaf.
ChunkSize_Uncapped(data_size) == data_size

\* Line 115: the bytes the next new leaf takes.
ChunkSize(data_size) == Min(max_binary_size, data_size)

RECURSIVE NewNodes(_, _, _, _, _)
\* The while loop of BigBlob::replace: data_size bytes are still to be
\* stored and the cursor stands cur bytes into the caller's buffer.  Each
\* of create (line 117), add (line 120) and Array::add (line 122) throws
\* when the allocator fails: before the new leaf exists, with the leaf
\* empty, or with the leaf filled, and in no case linked.  A read past the
\* end of the buffer is undefined: the call faults there, or the copy
\* brings back whatever lies behind the buffer and the loop goes on, until
\* the allocator has no node left.
NewNodes(h, ref, data, cur, data_size) ==
    IF data_size = 0
    THEN { Outcome(h, ref, "ok") }
    ELSE LET size_to_copy == ChunkSize(data_size)
             new_blob     == Len(h) + 1
             Filled(bytes) == BinBlob_add(Append(h, EmptyLeaf), new_blob, bytes)
             Grown(bytes) == Array_add(Filled(bytes), ref, new_blob)
         IN  IF cur + size_to_copy <= Len(data)
             THEN { Outcome(h, ref, "nomem"),
                    Outcome(Append(h, EmptyLeaf), ref, "nomem"),
                    Outcome(Filled(SubSeq(data, cur + 1, cur + size_to_copy)),
                            ref, "nomem") }
                  \cup
                  NewNodes(Grown(SubSeq(data, cur + 1, cur + size_to_copy)),
                           ref, data, cur + size_to_copy,
                           SizeSub(data_size, size_to_copy))
             ELSE { Outcome(h, ref, "fault") }
                  \cup
                  (IF Len(h) < MaxNodes
                   THEN UNION { NewNodes(Grown(g), ref, data,
                                         cur + size_to_copy,
                                         SizeSub(data_size, size_to_copy))
                                : g \in Garbage(size_to_copy) }
                   ELSE {})

\* Line 108 without the cap of the space left.
TopUpSize_All(space_left, data_size) == data_size

\* Line 108: the bytes that go into the last leaf.
TopUpSize(space_left, data_size) == Min(space_left, data_size)

\* BigBlob::replace returning the last node's reference when the data
\* just fills it.
BigBlob_replace_ReturnsLast(h, ref, data) ==
    LET data_size    == Len(data)
        lastNode     == h[ref].elems[Len(h[ref].elems)]
        space_left   == SizeSub(max_binary_size, get_size_from_header(h, lastNode))
        size_to_copy == Min(space_left, data_size)
        h1           == BinBlob_add(h, lastNode, SubSeq(data, 1, size_to_copy))
    IN  IF data_size = space_left
        THEN { Outcome(h1, lastNode, "ok") }
        ELSE NewNodes(h1, ref, data, space_left, SizeSub(data_size, space_left))

\* BigBlob::replace(data, data_size) on the directory at ref.  lastNode.add
\* (line 109) throws before it has changed the leaf.
BigBlob_replace(h, ref, data) ==
    LET data_size    == Len(data)
        lastNode     == h[ref].elems[Len(h[ref].elems)]
        space_left   == SizeSub(max_binary_size, get_size_from_header(h, lastNode))
        size_to_copy == TopUpSize(space_left, data_size)
        h1           == BinBlob_add(h, lastNode, SubSeq(data, 1, size_to_copy))
    IN  { Outcome(h, ref, "nomem") }
        \cup
        NewNodes(h1, ref, data, space_left, SizeSub(data_size, space_left))

---------------------------------------------------------------------------
(* BinBlob, the facade                                                     *)

\* BinBlob::get_at
BinBlob_get_at(h, ref, pos) ==
    LET offset == pos
    IN  IF get_context_flag(h, ref)
        THEN BigBlob_get_at(h, ref, pos)
        ELSE IF offset < get_size_from_header(h, ref)
             THEN [data |-> SubSeq(h[ref].elems, offset + 1, Len(h[ref].elems)),
                   pos  |-> 0]
             ELSE [data |-> <<>>, pos |-> 0]

\* Line 158 without its assertion.
AppendOnly_Unchecked(begin, end) == TRUE

\* Line 158: "For the time being, only support append".
AppendOnly(begin, end) == begin = 0 /\ end = 0

\* Line 172 with >= for >.
ExceedsLeaf_AtCapacity(new_size) == new_size >= max_binary_size

\* Line 172: the data no longer fits a single leaf.
ExceedsLeaf(new_size) == new_size > max_binary_size

\* Lines 173-176 with the bytes of the old root copied into a fresh leaf
\* that becomes the first child.
Promote_Copy(h, ref) ==
    Array_add(Append(Append(h, EmptyDirectory), h[ref]), Len(h) + 1, Len(h) + 2)

\* Lines 173-176: "BigBlob new_root(m_alloc); new_root.add(get_ref())", the
\* new directory being the node behind the heap so far.
Promote(h, ref) ==
    Array_add(Append(h, EmptyDirectory), Len(h) + 1, ref)

\* Line 152 without its assertion.
EndInRange_Unchecked(end, m_size) == TRUE

\* Line 152: REALM_ASSERT_3(end, <=, m_size).
EndInRange(end, m_size) == end <= m_size

\* BinBlob::replace: the outcomes of the call.  The assertion of line 153
\* (data_size == 0 || data) holds of every payload, a payload being a
\* buffer.  The constructor of line 173 and the add of line 176 throw
\* before the old root is touched, copy_on_write and alloc (lines 180 and
\* 183) before the leaf is.
BinBlob_replace(h, ref, begin, end, data, add_zero_term) ==
    LET m_size      == Len(h[ref].elems)
        data_size   == Len(data)
        remove_size == end - begin
        add_size    == IF add_zero_term THEN data_size + 1 ELSE data_size
        new_size    == m_size - remove_size + add_size
    IN  IF ~(begin <= end)
        THEN { Outcome(h, ref, "assert151") }
        ELSE IF ~EndInRange(end, m_size)
        THEN { Outcome(h, ref, "assert152") }
        ELSE IF get_context_flag(h, ref)
        THEN IF ~AppendOnly(begin, end)
             THEN { Outcome(h, ref, "assert158") }
             ELSE BigBlob_replace(h, ref, data)
        ELSE IF ExceedsLeaf(new_size)
        THEN LET new_root == Len(h) + 1
             IN  { Outcome(h, ref, "nomem"),
                   Outcome(Append(h, EmptyDirectory), ref, "nomem") }
                 \cup
                 BigBlob_replace(Promote(h, ref), new_root, data)
        ELSE { Outcome(h, ref, "nomem"),
               Outcome([h EXCEPT ![ref].elems =
                          ReplaceInLeaf(@, begin, end, data, add_zero_term)],
                       ref, "ok") }

\* BinBlob::blob_size
BinBlob_blob_size(h, ref) ==
    IF get_context_flag(h, ref)
    THEN BigBlob_blob_size(h, ref)
    ELSE get_size_from_header(h, ref)

\* BigBlob::verify and BinBlob::verify: TRUE when no assertion fails.  A
\* child is verified as a BinBlob of its own; directories nest no deeper
\* than the heap is large.
RECURSIVE VerifyDepth(_, _, _)
VerifyDepth(h, ref, depth) ==
    IF get_context_flag(h, ref)
    THEN /\ h[ref].has_refs
         /\ \A i \in 1..Len(h[ref].elems) :
               /\ h[ref].elems[i] # 0
               /\ (depth > 0 => VerifyDepth(h, h[ref].elems[i], depth - 1))
    ELSE ~h[ref].has_refs

BinBlob_verify(h, ref) == VerifyDepth(h, ref, Len(h))

---------------------------------------------------------------------------
(* The caller                                                              *)

\* A call that only appends: replace(length, length, ...) while Flat,
\* replace(0, 0, ...) while Chunked, without a terminator.
IsAppend(begin, end, add_zero_term) ==
    /\ ~add_zero_term
    /\ IF get_context_flag(heap, root)
       THEN begin = 0 /\ end = 0
       ELSE begin = Len(heap[root].elems) /\ end = begin

\* The payloads a call is given: any ramp while the blob is Flat; while it
\* is Chunked, the ramps that carry on from its last byte.
Payloads ==
    LET lastNode == heap[root].elems[Len(heap[root].elems)]
        tail     == heap[lastNode].elems
        seeds    == IF get_context_flag(heap, root) /\ Len(tail) > 0
                    THEN { 1 - tail[Len(tail)] }
                    ELSE Byte
    IN  { Ramp(s, n) : s \in seeds, n \in 0..MaxData }

Init ==
    /\ heap = << EmptyLeaf >>
    /\ root = 1
    /\ alive = TRUE
    /\ last = [op |-> "create"]
    /\ hist = "unit"
    /\ written = << >>

\* replace(begin, end, data, data_size, add_zero_term) on the root; the
\* caller keeps the reference an accepted call returns, and the reference
\* it held when the call throws.  A call that needs more than MaxNodes
\* nodes lies beyond the heap modelled.
Replace(begin, end, data, add_zero_term) ==
    /\ alive
    /\ \E o \in BinBlob_replace(heap, root, begin, end, data, add_zero_term) :
          /\ Len(o.heap) <= MaxNodes
          /\ heap' = o.heap
          /\ root' = IF o.status = "ok" THEN o.ref ELSE root
          /\ alive' = (o.status \in {"ok", "fault"})
          /\ last' = [op |-> "replace", status |-> o.status,
                      flat |-> ~get_context_flag(heap, root),
                      m_size |-> Len(heap[root].elems),
                      begin |-> begin, end |-> end,
                      data_size |-> Len(data), zt |-> add_zero_term]
          /\ hist' = IF /\ hist # "any"
                        /\ IsAppend(begin, end, add_zero_term)
                        /\ o.status # "nomem"
                     THEN IF hist = "unit" /\ Len(data) = 1
                          THEN "unit" ELSE "append"
                     ELSE "any"
    /\ written' = IF hist' # "any" THEN written \o data ELSE << >>

\* get_at(pos) on the root, for positions up to two behind the last byte.
Read(pos) ==
    /\ alive
    /\ pos <= BinBlob_blob_size(heap, root) + 1
    /\ LET r == BinBlob_get_at(heap, root, pos)
       IN  last' = [op |-> "get_at", pos |-> pos, data |-> r.data,
                    next_pos |-> r.pos]
    /\ UNCHANGED <<heap, root, alive, hist, written>>

\* blob_size() on the root.
BlobSize ==
    /\ alive
    /\ last' = [op |-> "blob_size", size |-> BinBlob_blob_size(heap, root)]
    /\ UNCHANGED <<heap, root, alive, hist, written>>

\* verify() on the root.
Verify ==
    /\ alive
    /\ LET ok == BinBlob_verify(heap, root)
       IN  /\ last' = [op |-> "verify",
                       status |-> IF ok THEN "ok" ELSE "assert"]
           /\ alive' = ok
    /\ UNCHANGED <<heap, root, hist, written>>

Next ==
    \/ \E begin \in 0..MaxPos, end \in 0..MaxPos, data \in Payloads,
          add_zero_term \in BOOLEAN :
          Replace(begin, end, data, add_zero_term)
    \/ \E pos \in 0..MaxReadPos : Read(pos)
    \/ BlobSize
    \/ Verify

Spec == Init /\ [][Next]_vars

---------------------------------------------------------------------------
(* What the properties speak of                                            *)

Chunked == get_context_flag(heap, root)

Flat == ~get_context_flag(heap, root)

\* The directory's children, and the bytes of child i.
NumChildren == Len(heap[root].elems)

ChildBytes(i) == heap[heap[root].elems[i]].elems

ChildLen(i) == Len(ChildBytes(i))

RECURSIVE Concat(_, _)
\* The bytes of children i.. of the root, in directory order.
Concat(i, n) == IF i > n THEN << >> ELSE ChildBytes(i) \o Concat(i + 1, n)

\* The logical bytes of the blob.
Content == IF Chunked THEN Concat(1, NumChildren) ELSE heap[root].elems

\* The logical offset child k starts at.
ChildStart(k) == Len(Concat(1, k - 1))

RECURSIVE ReadSegmentsFrom(_, _)
\* The caller's enumeration: get_at from pos, then from each position it
\* hands back, until it hands back 0; the segments in the order returned.
\* No enumeration of a blob the heap can hold takes more than fuel calls.
ReadSegmentsFrom(pos, fuel) ==
    LET r == BinBlob_get_at(heap, root, pos)
    IN  IF r.pos = 0 \/ fuel = 0
        THEN << r.data >>
        ELSE << r.data >> \o ReadSegmentsFrom(r.pos, fuel - 1)

ReadSegments == ReadSegmentsFrom(0, MaxNodes + 1)

RECURSIVE Flatten(_)
Flatten(segs) == IF segs = << >> THEN << >> ELSE Head(segs) \o Flatten(Tail(segs))

---------------------------------------------------------------------------
(* The claims                                                              *)

\* C1: after any history of appends from the empty blob, enumerating the
\* blob with get_at from 0 until it hands back 0 and concatenating the
\* segments gives the concatenation of the payloads.  (The code violates
\* this: an append shorter than the free space of the last child underflows
\* data_size in BigBlob::replace.)
C1_RoundTrip ==
    hist # "any" => Flatten(ReadSegments) = written

\* C2: in a Chunked blob every child but the last holds exactly
\* max_binary_size bytes, blob_size() is the sum of the children's lengths,
\* and that is the number of bytes written.  (Violated by the code for the
\* same underflow.)
C2_DirectoryInvariant ==
    Chunked =>
        /\ \A i \in 1..(NumChildren - 1) : ChildLen(i) = max_binary_size
        /\ BinBlob_blob_size(heap, root) = Len(Concat(1, NumChildren))
        /\ hist # "any" => BinBlob_blob_size(heap, root) = Len(written)

\* C3: while only single bytes have been appended to the blob created
\* empty, the blob is Flat exactly when at most max_binary_size bytes have
\* been appended, so the call that appends byte max_binary_size + 1 is the
\* one that promotes.
C3_PromotionTrigger ==
    hist = "unit" => (Flat <=> Len(written) <= max_binary_size)

\* The promoting call of a byte-by-byte history has just returned.
C3_Witness ==
    /\ hist = "unit"
    /\ Chunked
    /\ Len(written) = max_binary_size + 1
    /\ last.op = "replace" /\ last.status = "ok" /\ last.flat

\* The child whose byte range holds logical offset pos, for pos inside the
\* blob.
ChildOf(pos) ==
    CHOOSE k \in 1..NumChildren :
        ChildStart(k) <= pos /\ pos < ChildStart(k) + ChildLen(k)

\* What C4 says get_at(pos) returns on a Chunked blob.
ExpectedRead(pos) ==
    LET k == ChildOf(pos)
    IN  [data |-> SubSeq(ChildBytes(k), pos - ChildStart(k) + 1, ChildLen(k)),
         pos  |-> IF k < NumChildren THEN ChildStart(k + 1) ELSE 0]

\* C4: on a Chunked blob, get_at(pos) for pos inside the blob returns the
\* bytes of the child holding pos from pos to the end of that child, and
\* hands back the offset of the next child (pos plus the length returned),
\* or 0 for the last child.
C4_ChunkedRead ==
    Chunked =>
        /\ \A pos \in 0..(Len(Content) - 1) :
              LET r == BinBlob_get_at(heap, root, pos)
              IN  /\ r = ExpectedRead(pos)
                  /\ r.pos # 0 => r.pos = pos + Len(r.data)
        /\ (last.op = "get_at" /\ last.pos < Len(Content)) =>
              /\ last.data = ExpectedRead(last.pos).data
              /\ last.next_pos = ExpectedRead(last.pos).pos

\* A read from the middle of a child that is not the last has returned.
C4_Witness ==
    /\ Chunked
    /\ last.op = "get_at"
    /\ last.pos < Len(Content)
    /\ ChildOf(last.pos) < NumChildren
    /\ last.pos > ChildStart(ChildOf(last.pos))
    /\ last.next_pos = ChildStart(ChildOf(last.pos) + 1)

\* C5: get_at(pos) at or behind the end of the blob, Flat or Chunked,
\* returns an empty slice and hands back 0, and does so again when repeated.
C5_EmptyRead ==
    /\ \A pos \in Len(Content)..(MaxReadPos + 1) :
          BinBlob_get_at(heap, root, pos) = [data |-> << >>, pos |-> 0]
    /\ (last.op = "get_at" /\ last.pos >= Len(Content)) =>
          /\ last.data = << >>
          /\ last.next_pos = 0
          /\ BinBlob_get_at(heap, root, last.pos)
                = [data |-> last.data, pos |-> last.next_pos]

\* A read at the very end of a Chunked blob has returned.
C5_Witness ==
    /\ Chunked
    /\ NumChildren >= 2
    /\ last.op = "get_at"
    /\ last.pos = Len(Content)
    /\ last.data = << >>

\* C6: the enumeration from 0 makes as many get_at calls as the directory
\* has children, the i-th returning the whole of child i; on a Flat blob
\* that is not empty it makes one call.
C6_SegmentEnumeration ==
    /\ Chunked => ReadSegments = [i \in 1..NumChildren |-> ChildBytes(i)]
    /\ (Flat /\ Len(heap[root].elems) > 0) => ReadSegments = << heap[root].elems >>

\* The second call of an enumeration of three children has returned.
C6_Witness ==
    /\ Chunked
    /\ NumChildren = 3
    /\ last.op = "get_at"
    /\ last.pos = ChildStart(2)
    /\ last.next_pos = ChildStart(3)
    /\ last.data = ChildBytes(2)

\* C7: replace(begin, end, ...) on a Chunked blob with begin or end not 0
\* fails an assertion and changes nothing.
C7_AppendOnlyEnforced ==
    [][ (Chunked /\ last'.op = "replace" /\ (last'.begin # 0 \/ last'.end # 0))
            => /\ last'.status \in {"assert151", "assert152", "assert158"}
               /\ ~alive'
               /\ heap' = heap
               /\ root' = root ]_vars

\* The append-only assertion of a Chunked blob has fired.
C7_Witness ==
    /\ Chunked
    /\ ~alive
    /\ last.op = "replace"
    /\ ~last.flat
    /\ last.status = "assert158"
    /\ last.begin > 0

\* C8: a Chunked blob stays Chunked whatever is called next.
C8_PromotionOneWay ==
    [][ get_context_flag(heap, root) => get_context_flag(heap', root') ]_vars

\* An append to a blob that was already Chunked has returned.
C8_Witness ==
    /\ Chunked
    /\ last.op = "replace"
    /\ last.status = "ok"
    /\ ~last.flat
    /\ last.data_size > 0

\* What C9 says a leaf holds after replace(begin, end, data, terminator).
ExpectedLeaf(old, begin, end, data, add_zero_term) ==
    SubSeq(old, 1, begin) \o data
        \o (IF add_zero_term THEN << 0 >> ELSE << >>)
        \o SubSeq(old, end + 1, Len(old))

\* The length line 166 computes for the last replace call.
LastNewSize ==
    last.m_size - (last.end - last.begin) + last.data_size
        + (IF last.zt THEN 1 ELSE 0)

\* C9: a replace on a Flat blob whose result fits one leaf, the allocator
\* not failing, leaves the same root, Flat, holding old[0,begin) ++ data ++
\* (0 if a terminator is asked for) ++ old[end,len).
C9_FlatReplace ==
    /\ Flat =>
          \A begin \in 0..Len(heap[root].elems) :
          \A end \in begin..Len(heap[root].elems) :
          \A data \in Payloads :
          \A add_zero_term \in BOOLEAN :
             LET new == ExpectedLeaf(heap[root].elems, begin, end, data,
                                     add_zero_term)
             IN  Len(new) <= max_binary_size =>
                    { o \in BinBlob_replace(heap, root, begin, end, data,
                                            add_zero_term) : o.status # "nomem" }
                       = { Outcome([heap EXCEPT ![root].elems = new], root, "ok") }
    /\ (/\ last.op = "replace"
        /\ last.flat
        /\ last.status # "nomem"
        /\ last.begin <= last.end
        /\ last.end <= last.m_size
        /\ LastNewSize <= max_binary_size) =>
          /\ last.status = "ok"
          /\ Flat
          /\ Len(heap[root].elems) = LastNewSize
          /\ last.zt => heap[root].elems[last.begin + last.data_size + 1] = 0

\* A replace of a middle range that grows the leaf and writes a terminator
\* has returned.
C9_Witness ==
    /\ Flat
    /\ last.op = "replace"
    /\ last.status = "ok"
    /\ last.zt
    /\ last.begin < last.end
    /\ last.end < last.m_size
    /\ LastNewSize > last.m_size

\* C10: after a replace with a terminator on a Flat blob, promoting or not,
\* blob_size() is length - (end - begin) + |data| + 1 and the byte behind
\* the data is 0.  (The code violates this: the promoting branch hands only
\* data and data_size to BigBlob::replace.)
C10_TerminatorCounted ==
    (last.op = "replace" /\ last.status = "ok" /\ last.flat /\ last.zt) =>
        /\ BinBlob_blob_size(heap, root) = LastNewSize
        /\ Len(Content) >= last.begin + last.data_size + 1
        /\ Content[last.begin + last.data_size + 1] = 0

\* C11: when an allocation fails during a replace, be it in place on a Flat
\* blob, promoting, or an append to a Chunked blob that needs new children,
\* the blob reached through the root the caller held before the call has
\* the mode, the child list and the bytes it had.  (The code violates this:
\* BigBlob::replace has topped up the last leaf, and linked the leaves of
\* its earlier iterations, when create throws for the next one.)
C11_NoPartialMutation ==
    [][ (last'.op = "replace" /\ last'.status = "nomem")
            => /\ root' = root
               /\ heap'[root] = heap[root]
               /\ Chunked =>
                     \A i \in 1..NumChildren :
                        heap'[heap[root].elems[i]] = heap[heap[root].elems[i]] ]_vars

\* C12: a replace that promotes a Flat blob of length len returns a root
\* other than the previous one, a directory whose child 0 is the previous
\* root node itself, still a leaf, and the first len bytes of the promoted
\* blob are the bytes the Flat blob held before the call.
C12_PromotionByReference ==
    [][ (/\ Flat
         /\ last'.op = "replace"
         /\ last'.status = "ok"
         /\ get_context_flag(heap', root'))
            => /\ root' # root
               /\ heap'[root'].elems[1] = root
               /\ ~get_context_flag(heap', root)
               /\ SubSeq(Content', 1, Len(heap[root].elems)) = heap[root].elems ]_vars

\* A promotion of a blob that held bytes has returned, its old root now
\* child 0 of the new one.
C12_Witness ==
    /\ Chunked
    /\ last.op = "replace"
    /\ last.status = "ok"
    /\ last.flat
    /\ last.m_size > 0
    /\ heap[root].elems[1] # root
    /\ ChildLen(1) = max_binary_size

\* The free space of the last child of the Chunked root.
SpaceLeft == max_binary_size - ChildLen(NumChildren)

\* C13: what is left to store after the last child has been topped up is
\* |data| - min(space_left, |data|) and never wraps, so an append of at most
\* space_left bytes to a Chunked blob, the allocator not failing, returns
\* with no new child, the last child longer by |data| and every byte of the
\* blob its own.  (The code violates this: line 110 subtracts space_left.)
C13_TopUpArithmetic ==
    [][ (/\ Chunked
         /\ last'.op = "replace"
         /\ last'.begin = 0 /\ last'.end = 0
         /\ last'.data_size <= SpaceLeft
         /\ last'.status # "nomem")
            => /\ last'.status = "ok"
               /\ heap'[root].elems = heap[root].elems
               /\ Len(heap') = Len(heap)
               /\ Len(Content') = Len(Content) + last'.data_size ]_vars

\* C14: right after a promoting pure append (begin = end = len, no
\* terminator) of payload d to a Flat blob of length len, child 0 holds
\* exactly max_binary_size bytes, so does every further child but the last,
\* the last holds between 1 and max_binary_size bytes, and blob_size() is
\* len + |d|.
C14_PromotedShape ==
    (/\ last.op = "replace"
     /\ last.status = "ok"
     /\ last.flat
     /\ Chunked
     /\ last.begin = last.m_size /\ last.end = last.m_size
     /\ ~last.zt) =>
        /\ ChildLen(1) = max_binary_size
        /\ \A i \in 1..(NumChildren - 1) : ChildLen(i) = max_binary_size
        /\ ChildLen(NumChildren) \in 1..max_binary_size
        /\ BinBlob_blob_size(heap, root) = last.m_size + last.data_size

\* A promoting append to a blob that held bytes has returned with three
\* children.
C14_Witness ==
    /\ last.op = "replace"
    /\ last.status = "ok"
    /\ last.flat
    /\ Chunked
    /\ last.m_size > 0
    /\ last.begin = last.m_size /\ last.end = last.m_size
    /\ ~last.zt
    /\ NumChildren = 3

\* C15: a replace(begin, end, data) with begin <= end <= len on a Flat blob
\* holding old, without a terminator, whose result no longer fits one leaf
\* leaves a promoted blob holding old[0,begin) ++ data ++ old[end,len), also
\* when begin < len or begin < end.  (The code violates this: the promoting
\* branch hands data to BigBlob::replace, which appends it behind old.)
C15_RangeReplaceOverflow ==
    [][ (/\ Flat
         /\ last'.op = "replace"
         /\ last'.status = "ok"
         /\ ~last'.zt
         /\ get_context_flag(heap', root'))
            => \E data \in Payloads :
                  /\ Len(data) = last'.data_size
                  /\ Content' = ExpectedLeaf(heap[root].elems, last'.begin,
                                             last'.end, data, FALSE) ]_vars

\* C16: in every state reached from the empty blob, a Flat root holds at
\* most max_binary_size bytes, a Chunked root has at least one child, every
\* child is a leaf of 1 to max_binary_size bytes, and so the space left in
\* the last child, computed in size_t, does not wrap.
C16_LeafAndDirectoryBounds ==
    /\ Flat => Len(heap[root].elems) \in 0..max_binary_size
    /\ Chunked =>
          /\ NumChildren >= 1
          /\ \A i \in 1..NumChildren :
                /\ heap[root].elems[i] \in 1..Len(heap)
                /\ ~get_context_flag(heap, heap[root].elems[i])
                /\ ChildLen(i) \in 1..max_binary_size
          /\ SizeSub(max_binary_size, ChildLen(NumChildren)) = SpaceLeft

\* An append has topped up the last child of a directory to its capacity
\* and added a child behind it.
C16_Witness ==
    /\ Chunked
    /\ last.op = "replace"
    /\ last.status = "ok"
    /\ ~last.flat
    /\ NumChildren = 3
    /\ ChildLen(2) = max_binary_size
    /\ last.m_size = 2

\* C17: verify() fails on no state reached from the empty blob: a Flat root
\* is not marked as holding references, a Chunked root is, every child
\* reference is non-null and every child is a Flat leaf that verifies.
C17_VerifyNeverFails ==
    /\ BinBlob_verify(heap, root)
    /\ Flat => ~heap[root].has_refs
    /\ Chunked =>
          /\ heap[root].has_refs
          /\ \A i \in 1..NumChildren :
                /\ heap[root].elems[i] # 0
                /\ ~get_context_flag(heap, heap[root].elems[i])
                /\ BinBlob_verify(heap, heap[root].elems[i])
    /\ last.op = "verify" => (last.status = "ok" /\ alive)

\* verify() has returned on a directory of three children.
C17_Witness ==
    /\ Chunked
    /\ NumChildren = 3
    /\ last.op = "verify"
    /\ last.status = "ok"

\* C18: a replace on a Chunked blob, however it ends, leaves the root and
\* the directory's entries so far in place and in order, changes no child
\* but the one that was last, which only grows, and leaves the bytes the
\* blob held as a prefix of the bytes it holds.
C18_ChunkedAppendOnlyAppends ==
    [][ (Chunked /\ last'.op = "replace")
            => /\ root' = root
               /\ NumChildren' >= NumChildren
               /\ SubSeq(heap'[root].elems, 1, NumChildren) = heap[root].elems
               /\ \A i \in 1..(NumChildren - 1) :
                     heap'[heap[root].elems[i]] = heap[heap[root].elems[i]]
               /\ SubSeq(heap'[heap[root].elems[NumChildren]].elems,
                         1, ChildLen(NumChildren))
                     = ChildBytes(NumChildren)
               /\ SubSeq(Content', 1, Len(Content)) = Content ]_vars

\* An append to a directory of two children has grown the second and added
\* a third.
C18_Witness ==
    /\ Chunked
    /\ last.op = "replace"
    /\ last.status = "ok"
    /\ ~last.flat
    /\ last.m_size = 2
    /\ NumChildren = 3
    /\ ChildLen(3) < max_binary_size

\* C19: in every reachable state and for every pos, get_at(pos) hands back
\* 0, or a position behind pos that is the offset a child starts at and lies
\* inside the blob, together with a slice that is not empty; following the
\* positions handed back from any pos ends with 0 within as many calls as
\* the directory has children (one call on a Flat blob).
C19_ReadProgress ==
    /\ \A pos \in 0..(MaxReadPos + 1) :
          LET r == BinBlob_get_at(heap, root, pos)
          IN  /\ \/ r.pos = 0
                 \/ /\ r.pos > pos
                    /\ Chunked
                    /\ \E k \in 2..NumChildren : r.pos = ChildStart(k)
                    /\ r.pos < BinBlob_blob_size(heap, root)
                    /\ r.data # << >>
              /\ Len(ReadSegmentsFrom(pos, MaxNodes + 1))
                    <= (IF Chunked THEN NumChildren ELSE 1)
    /\ last.op = "get_at" =>
          \/ last.next_pos = 0
          \/ /\ last.next_pos > last.pos
             /\ last.next_pos < BinBlob_blob_size(heap, root)
             /\ last.data # << >>

\* A read from inside the second of three children has handed back the
\* offset of the third.
C19_Witness ==
    /\ Chunked
    /\ NumChildren = 3
    /\ last.op = "get_at"
    /\ last.pos = ChildStart(2) + 1
    /\ last.next_pos = ChildStart(3)
    /\ last.next_pos > last.pos
    /\ last.data # << >>

\* C20: a replace on a Flat blob with begin > end or end > length() fails
\* the assertion of line 151 or 152 before anything is decided, allocated
\* or written: no node of the heap changes, the root is the same, and the
\* blob has the mode, length and bytes it had.
C20_OutOfRangeRejected ==
    [][ (/\ Flat
         /\ last'.op = "replace"
         /\ (last'.begin > last'.end \/ last'.end > Len(heap[root].elems)))
            => /\ last'.status \in {"assert151", "assert152"}
               /\ ~alive'
               /\ heap' = heap
               /\ root' = root ]_vars

\* A replace reaching behind the end of a Flat blob that holds bytes has
\* failed the assertion of line 152.
C20_Witness ==
    /\ Flat
    /\ ~alive
    /\ last.op = "replace"
    /\ last.flat
    /\ last.status = "assert152"
    /\ last.m_size > 0
    /\ last.end > last.m_size
    /\ Len(heap[root].elems) = last.m_size

=============================================================================
